---- MODULE Spec2Model ----
(***************************************************************************)
(* Model of the chat relay: the Socket.IO server (users registry, message  *)
(* log, event handlers) and the part of the React client that drives       *)
(* join and reconnect.                                                     *)
(***************************************************************************)
EXTENDS Integers, Sequences, FiniteSets, TLC

\* ------------------------------------------------------------------ bounds
MaxMsgs  == 2      \* records a run may append to the log
MaxSocks == 2      \* server-side sockets ever opened (socket ids are never reused)

\* ------------------------------------------------------- program constants
messageHistoryLimit == 50
System == "System"

\* ------------------------------------------------------------ input values
Names      == {"", "Ana"}          \* names sent with a join or as the sender of a post
NewNames   == {"Ana", "Bob", " "}  \* new names sent with a rename
Readers    == {"Ana", "Bob"}       \* readers named by a receipt
Texts      == {"", "hi"}           \* message bodies
TypedNames == {"Ana", "Bob"}       \* names typed into the username form
SockIds    == 1..MaxSocks
MsgIds     == 1..(MaxMsgs + 1)     \* ids a receipt may name; the last is never in the log
Clients    == {1, 2}

VARIABLES
  users,      \* server: Map<socket id, username>, as its entries in insertion order
  messages,   \* server: Message[]
  live,       \* server: sockets that are connected (io.sockets)
  nextSock,   \* transport: next socket id to hand out
  nextId,     \* uuidv4: number of the next fresh id
  now,        \* last value read from the clock
  out,        \* emissions of the handler that ran last, in program order
  last,       \* name of the event the server handled last
  acked,      \* receipts handled for a message that was in the log
  client,     \* per client: state of App and of its socket
  c2s         \* per socket: events emitted by the client, not yet handled

vars == <<users, messages, live, nextSock, nextId, now, out, last, acked, client, c2s>>

\* ------------------------------------------------------------------ helpers
Range(s) == {s[i] : i \in 1..Len(s)}
Min(a, b) == IF a < b THEN a ELSE b
Max(a, b) == IF a > b THEN a ELSE b

\* an includes that never finds the reader
IncludesNever(s, x) == FALSE

\* Array.prototype.includes
Includes(s, x) == \E i \in 1..Len(s) : s[i] = x

\* a push that drops the readers recorded so far
PushReplacing(s, x) == <<x>>

\* Array.prototype.push on readBy
Push(s, x) == Append(s, x)

\* a slice that keeps the oldest n records: slice(0, n)
SliceFirst(s, n) == SubSeq(s, 1, Min(n, Len(s)))

\* Array.prototype.slice(-n)
SliceLast(s, n) == SubSeq(s, Max(1, Len(s) - n + 1), Len(s))

\* Array.prototype.findIndex(msg => msg.id === id); 0 stands for -1
RECURSIVE FindIndexFrom(_, _, _)
FindIndexFrom(s, id, i) ==
  IF i > Len(s) THEN 0
  ELSE IF s[i].id = id THEN i
  ELSE FindIndexFrom(s, id, i + 1)
FindIndex(s, id) == FindIndexFrom(s, id, 1)

\* ---------------------------------------------------------- Map<string,string>
MapHas(m, k) == \E i \in 1..Len(m) : m[i].id = k

\* Map.get: def = FALSE stands for undefined
MapGet(m, k) ==
  IF MapHas(m, k)
  THEN [def |-> TRUE, val |-> m[CHOOSE i \in 1..Len(m) : m[i].id = k].name]
  ELSE [def |-> FALSE, val |-> ""]

\* Map.set keeps the position of an existing key and appends a new one
MapSet(m, k, v) ==
  IF MapHas(m, k)
  THEN [i \in 1..Len(m) |-> IF m[i].id = k THEN [id |-> k, name |-> v] ELSE m[i]]
  ELSE Append(m, [id |-> k, name |-> v])

MapDelete(m, k) == SelectSeq(m, LAMBDA e : e.id # k)

\* Array.from(map.values())
MapValues(m) == [i \in 1..Len(m) |-> m[i].name]

\* a test that takes undefined for a name
TruthyAlways(v) == TRUE

\* JavaScript truthiness of a string | undefined
Truthy(v) == v.def /\ v.val # ""

\* String.prototype.trim on the names of the model
trim(s) == IF s = " " THEN "" ELSE IF s = " Ana" THEN "Ana" ELSE s

\* ------------------------------------------------------------------ server
getOnlineUsers(m) == MapValues(m)

Message(id, text, sender, t, readBy) ==
  [id |-> id, text |-> text, sender |-> sender, timestamp |-> t, readBy |-> readBy]

\* an emit that reaches one of the connected sockets only
IoEmitToOne(event, payload, sockets) ==
  [event |-> event, payload |-> payload,
   to |-> IF sockets = {} THEN {} ELSE {CHOOSE x \in sockets : TRUE}]

\* io.emit(event, payload): to every connected socket
IoEmit(event, payload, sockets) == [event |-> event, payload |-> payload, to |-> sockets]
\* socket.emit(event, payload)
SocketEmit(event, payload, s) == [event |-> event, payload |-> payload, to |-> {s}]

broadcastOnlineUsers(m, sockets) == IoEmit("online users", getOnlineUsers(m), sockets)

\* [...messages].sort((a, b) => a.timestamp - b.timestamp): a stable sort, as
\* SortSeq is with a strict comparison
SortByTime(s) == SortSeq(s, LAMBDA a, b : a.timestamp < b.timestamp)

recentMessages(msgs) == SliceLast(SortByTime(msgs), messageHistoryLimit)

\* a replay that pushes the newest record first
ReplayHistoryNewestFirst(msgs, s) ==
  LET recent == recentMessages(msgs)
  IN [i \in 1..Len(recent) |->
        SocketEmit("chat message", recent[Len(recent) - i + 1], s)]

\* recentMessages.forEach(msg => socket.emit("chat message", msg))
ReplayHistory(msgs, s) ==
  LET recent == recentMessages(msgs)
  IN [i \in 1..Len(recent) |-> SocketEmit("chat message", recent[i], s)]

\* new Date(): the clock does not run backwards
Clock == {now, now + 1}



TypeOK ==
  /\ live \subseteq SockIds
  /\ nextSock \in 1..(MaxSocks + 1)
  /\ nextId = Len(messages) + 1
  /\ now \in 0..Len(messages)
  /\ Len(messages) <= MaxMsgs

\* App after mount: the socket is created and connecting, no name entered, the
\* mirror and the online list are empty; inbox holds the pushes in flight to
\* the client's socket; joined records that the server has handled a join of
\* this client; socket tells whether socketRef holds the socket of the mount
\* effect; connectionError whether an error text is set; changingUsername and
\* oldUsername belong to the rename flow
InitClient ==
  [username |-> "", hasUsername |-> FALSE, connected |-> FALSE, sid |-> 0, joined |-> FALSE,
   messages |-> <<>>, onlineUsers |-> <<>>, inbox |-> <<>>,
   socket |-> TRUE, connectionError |-> FALSE, changingUsername |-> FALSE,
   oldUsername |-> ""]

Init ==
  /\ users = <<>>
  /\ messages = <<>>
  /\ live = {}
  /\ nextSock = 1
  /\ nextId = 1
  /\ now = 0
  /\ out = <<>>
  /\ last = "listen"
  /\ acked = {}
  /\ client = [k \in Clients |-> InitClient]
  /\ c2s = [s \in SockIds |-> <<>>]

\* io.on("connection", socket => ...): registers the handlers of the socket
OnConnection(s) ==
  /\ s = nextSock
  /\ s <= MaxSocks
  /\ nextSock' = nextSock + 1
  /\ live' = live \cup {s}
  /\ out' = <<>>
  /\ last' = "connection"
  /\ UNCHANGED <<users, messages, nextId, now>>

\* the system message of socket.on("user joined"), if it creates one
JoinNotice(prev, username, id, t) ==
  IF Truthy(prev)
  THEN IF prev.val # username
       THEN <<Message(id, prev.val \o " changed their name to " \o username, System, t, <<username>>)>>
       ELSE <<>>
  ELSE <<Message(id, username \o " joined the chat", System, t, <<username>>)>>

\* what socket.on("user joined") emits, in program order
JoinEmits(created, msgs, reg, s, sockets) ==
  [i \in 1..Len(created) |-> IoEmit("chat message", created[i], sockets)]
    \o ReplayHistory(msgs, s)
    \o <<broadcastOnlineUsers(reg, sockets)>>

\* socket.on("user joined", username => ...)
OnUserJoined(s, username, t) ==
  LET prev    == MapGet(users, s)
      created == JoinNotice(prev, username, nextId, t)
      msgs    == messages \o created
      reg     == MapSet(users, s, username)
  IN /\ s \in live
     /\ created # <<>> => nextId <= MaxMsgs
     /\ messages' = msgs
     /\ nextId' = nextId + Len(created)
     /\ now' = IF created # <<>> THEN t ELSE now
     /\ users' = reg
     /\ out' = JoinEmits(created, msgs, reg, s, live)
     /\ last' = "user joined"
     /\ UNCHANGED <<live, nextSock>>

\* a validation that lets a blank new name through
RenameAcceptedUntrimmed(oldUsername, newUsername) ==
  oldUsername # newUsername /\ newUsername # ""

\* the validation of socket.on("change username")
RenameAccepted(oldUsername, newUsername) ==
  oldUsername # newUsername /\ trim(newUsername) # ""

\* a rename notice marked as read by the old name
RenameNoticeReadByOld(oldUsername, newUsername, id, t) ==
  Message(id, oldUsername \o " changed their name to " \o newUsername, System, t, <<oldUsername>>)

\* the system message of socket.on("change username")
RenameNotice(oldUsername, newUsername, id, t) ==
  Message(id, oldUsername \o " changed their name to " \o newUsername, System, t, <<newUsername>>)

\* socket.on("change username", data => ...)
OnChangeUsername(s, oldUsername, newUsername, t) ==
  LET systemMessage == RenameNotice(oldUsername, newUsername, nextId, t)
      reg == MapSet(users, s, newUsername)
  IN /\ s \in live
     /\ IF RenameAccepted(oldUsername, newUsername)
        THEN /\ nextId <= MaxMsgs
             /\ messages' = Append(messages, systemMessage)
             /\ nextId' = nextId + 1
             /\ now' = t
             /\ users' = reg
             /\ out' = <<IoEmit("chat message", systemMessage, live), broadcastOnlineUsers(reg, live)>>
        ELSE /\ out' = <<>>
             /\ UNCHANGED <<messages, nextId, now, users>>
     /\ last' = "change username"
     /\ UNCHANGED <<live, nextSock>>

\* a post whose record starts with nobody having read it
fullMessageUnread(id, text, sender, t) == Message(id, text, sender, t, <<>>)

\* the record socket.on("chat message") creates
fullMessage(id, text, sender, t) == Message(id, text, sender, t, <<sender>>)

\* socket.on("chat message", msg => ...)
OnChatMessage(s, text, sender, t) ==
  LET m == fullMessage(nextId, text, sender, t)
  IN /\ s \in live
     /\ nextId <= MaxMsgs
     /\ messages' = Append(messages, m)
     /\ nextId' = nextId + 1
     /\ now' = t
     /\ out' = <<IoEmit("chat message", m, live)>>
     /\ last' = "chat message"
     /\ UNCHANGED <<users, live, nextSock>>

\* a receipt handler that broadcasts the updated copy but leaves the log as it was
markReadUnstored(msgs, messageId, reader, sockets) ==
  LET messageIndex == FindIndex(msgs, messageId)
  IN IF messageIndex # 0 /\ ~Includes(msgs[messageIndex].readBy, reader)
     THEN [messages |-> msgs,
           emits |-> <<IoEmit("message updated",
                              [msgs[messageIndex] EXCEPT !.readBy = Push(@, reader)], sockets)>>]
     ELSE [messages |-> msgs, emits |-> <<>>]

\* a receipt handler that also stamps the record with a later time
markReadRestamped(msgs, messageId, reader, sockets) ==
  LET messageIndex == FindIndex(msgs, messageId)
  IN IF messageIndex # 0 /\ ~Includes(msgs[messageIndex].readBy, reader)
     THEN LET message == [msgs[messageIndex] EXCEPT !.readBy = Push(@, reader),
                                                    !.timestamp = @ + 1]
          IN [messages |-> [msgs EXCEPT ![messageIndex] = message],
              emits |-> <<IoEmit("message updated", message, sockets)>>]
     ELSE [messages |-> msgs, emits |-> <<>>]

\* a receipt handler that broadcasts the record as it was before the push
markReadStale(msgs, messageId, reader, sockets) ==
  LET messageIndex == FindIndex(msgs, messageId)
  IN IF messageIndex # 0 /\ ~Includes(msgs[messageIndex].readBy, reader)
     THEN LET message == [msgs[messageIndex] EXCEPT !.readBy = Push(@, reader)]
          IN [messages |-> [msgs EXCEPT ![messageIndex] = message],
              emits |-> <<IoEmit("message updated", msgs[messageIndex], sockets)>>]
     ELSE [messages |-> msgs, emits |-> <<>>]

\* a receipt handler that broadcasts the record for every receipt of a known id
markReadRebroadcast(msgs, messageId, reader, sockets) ==
  LET messageIndex == FindIndex(msgs, messageId)
  IN IF messageIndex # 0
     THEN LET message == IF Includes(msgs[messageIndex].readBy, reader)
                         THEN msgs[messageIndex]
                         ELSE [msgs[messageIndex] EXCEPT !.readBy = Push(@, reader)]
          IN [messages |-> [msgs EXCEPT ![messageIndex] = message],
              emits |-> <<IoEmit("message updated", message, sockets)>>]
     ELSE [messages |-> msgs, emits |-> <<>>]

\* the body of socket.on("read receipt"): the log and the emissions it leaves
markRead(msgs, messageId, reader, sockets) ==
  LET messageIndex == FindIndex(msgs, messageId)
  IN IF messageIndex # 0 /\ ~Includes(msgs[messageIndex].readBy, reader)
     THEN LET message == [msgs[messageIndex] EXCEPT !.readBy = Push(@, reader)]
          IN [messages |-> [msgs EXCEPT ![messageIndex] = message],
              emits |-> <<IoEmit("message updated", message, sockets)>>]
     ELSE [messages |-> msgs, emits |-> <<>>]

\* socket.on("read receipt", receipt => ...)
OnReadReceipt(s, messageId, reader) ==
  /\ s \in live
  /\ messages' = markRead(messages, messageId, reader, live).messages
  /\ out' = markRead(messages, messageId, reader, live).emits
  /\ last' = "read receipt"
  /\ UNCHANGED <<users, live, nextSock, nextId, now>>

\* a disconnect handler that refreshes the presence list before the notice
DisconnectEmitsPresenceFirst(systemMessage, reg, sockets) ==
  <<broadcastOnlineUsers(reg, sockets), IoEmit("chat message", systemMessage, sockets)>>

\* what socket.on("disconnect") emits for a socket that had a username
DisconnectEmits(systemMessage, reg, sockets) ==
  <<IoEmit("chat message", systemMessage, sockets), broadcastOnlineUsers(reg, sockets)>>

\* socket.on("disconnect", () => ...); the socket has left io.sockets when it runs
OnDisconnect(s, t) ==
  LET username == MapGet(users, s)
      systemMessage == Message(nextId, username.val \o " left the chat", System, t, <<>>)
      reg == MapDelete(users, s)
      remaining == live \ {s}
  IN /\ s \in live
     /\ live' = remaining
     /\ IF Truthy(username)
        THEN /\ nextId <= MaxMsgs
             /\ messages' = Append(messages, systemMessage)
             /\ nextId' = nextId + 1
             /\ now' = t
             /\ users' = reg
             /\ out' = DisconnectEmits(systemMessage, reg, remaining)
        ELSE /\ out' = <<>>
             /\ UNCHANGED <<messages, nextId, now, users>>
     /\ last' = "disconnect"
     /\ UNCHANGED nextSock

\* ------------------------------------------- the server under arbitrary events
Connection == \E s \in SockIds : OnConnection(s) /\ UNCHANGED <<acked, client, c2s>>

UserJoined ==
  \E s \in SockIds, username \in Names, t \in Clock :
    OnUserJoined(s, username, t) /\ UNCHANGED <<acked, client, c2s>>

ChangeUsername ==
  \E s \in SockIds, oldUsername \in Names, newUsername \in NewNames, t \in Clock :
    OnChangeUsername(s, oldUsername, newUsername, t) /\ UNCHANGED <<acked, client, c2s>>

ChatMessage ==
  \E s \in SockIds, text \in Texts, sender \in Names, t \in Clock :
    OnChatMessage(s, text, sender, t) /\ UNCHANGED <<acked, client, c2s>>

ReadReceipt ==
  \E s \in SockIds, messageId \in MsgIds, reader \in Readers :
    OnReadReceipt(s, messageId, reader) /\ UNCHANGED <<acked, client, c2s>>

Disconnect ==
  \E s \in SockIds, t \in Clock : OnDisconnect(s, t) /\ UNCHANGED <<acked, client, c2s>>

Next ==
  \/ Connection
  \/ UserJoined
  \/ ChangeUsername
  \/ ChatMessage
  \/ ReadReceipt
  \/ Disconnect

Spec == Init /\ [][Next]_vars

\* ------------------------------------ the server with a log around the limit
\* lengths of the log the server starts from: one below the replay limit, the
\* limit, one above it
SeedLens == (messageHistoryLimit - 1)..(messageHistoryLimit + 1)

\* the log after n posts of Ana sent on one socket, a millisecond apart; its
\* ids are other than the ones the run will draw
SeedLog(n) == [i \in 1..n |-> fullMessage(i - n, "hi", "Ana", i)]

\* the state after connection of socket 1 and n chat message events on it
InitHistory ==
  \E n \in SeedLens :
    /\ users = <<>>
    /\ messages = SeedLog(n)
    /\ live = {1}
    /\ nextSock = 2
    /\ nextId = 1
    /\ now = n
    /\ out = <<IoEmit("chat message", SeedLog(n)[n], {1})>>
    /\ last = "chat message"
    /\ acked = {}
    /\ client = [k \in Clients |-> InitClient]
    /\ c2s = [s \in SockIds |-> <<>>]

NextHistory ==
  \/ Connection
  \/ UserJoined
  \/ ChatMessage
  \/ Disconnect

SpecHistory == InitHistory /\ [][NextHistory]_vars

\* ------------------------------- the server, recording the receipts it handled
ReadReceiptAcked ==
  \E s \in SockIds, messageId \in MsgIds, reader \in Readers :
    /\ OnReadReceipt(s, messageId, reader)
    /\ acked' = IF FindIndex(messages, messageId) # 0
                THEN acked \cup {<<messageId, reader>>}
                ELSE acked
    /\ UNCHANGED <<client, c2s>>

NextAcked ==
  \/ Connection
  \/ UserJoined
  \/ ChangeUsername
  \/ ChatMessage
  \/ ReadReceiptAcked
  \/ Disconnect

SpecAcked == Init /\ [][NextAcked]_vars

\* ------------------------------------------------------------------ client
\* socket.emit("user joined", username) by client k; rejoin tells whether the
\* emission comes from handleConnect of a client that had joined before
JoinEvent(k, username, rejoin) ==
  [type |-> "user joined", from |-> k, username |-> username, rejoin |-> rejoin]

\* handleConnect: what the client emits once the socket is connected
handleConnectEmits(k, c) ==
  IF c.hasUsername /\ c.username # ""
  THEN <<JoinEvent(k, c.username, c.joined)>>
  ELSE <<>>

\* the transport connects the client's socket: the server runs its connection
\* handler for a new socket id, then the client runs handleConnect
ClientConnect(k) ==
  LET s == nextSock
      emits == handleConnectEmits(k, client[k])
  IN /\ ~client[k].connected
     /\ client[k].socket
     /\ OnConnection(s)
     /\ client' = [client EXCEPT ![k].connected = TRUE, ![k].sid = s,
                                  ![k].connectionError = FALSE]
     /\ c2s' = [c2s EXCEPT ![s] = emits]
     /\ UNCHANGED acked

\* the join/rename effect, on the initial join (changingUsername is false)
joinEffectEmits(k, c) ==
  IF c.username # "" /\ c.hasUsername /\ c.connected
  THEN <<JoinEvent(k, trim(c.username), FALSE)>>
  ELSE <<>>

\* the user types a name into the form and submits it: handleUsernameSubmit
\* sets hasUsername, and the join effect runs after the render. The form is
\* rendered only while no connection error is shown. Without a socket in
\* socketRef the handler reports an error and returns: the socket it then
\* opens has no listeners and is left out
SubmitUsername(k, typed) ==
  LET c == [client[k] EXCEPT !.username = typed, !.hasUsername = TRUE]
      emits == joinEffectEmits(k, c)
  IN /\ ~client[k].hasUsername
     /\ ~client[k].changingUsername
     /\ ~client[k].connectionError
     /\ trim(typed) # ""
     /\ IF client[k].socket
        THEN /\ client' = [client EXCEPT ![k] = c]
             /\ c2s' = IF emits # <<>>
                       THEN [c2s EXCEPT ![c.sid] = @ \o emits]
                       ELSE c2s
        ELSE /\ client' = [client EXCEPT ![k].username = typed,
                                          ![k].connectionError = TRUE]
             /\ c2s' = c2s
     /\ UNCHANGED <<users, messages, live, nextSock, nextId, now, out, last, acked>>

\* the transport drops: handleDisconnect runs with a reason other than a client
\* or server disconnect; username, hasUsername and messages are kept, the
\* online list is cleared, and what was in flight to the socket is lost
TransportLoss(k) ==
  /\ client[k].connected
  /\ client' = [client EXCEPT ![k].connected = FALSE, ![k].sid = 0,
                               ![k].onlineUsers = <<>>, ![k].inbox = <<>>,
                               ![k].connectionError = TRUE]
  /\ UNCHANGED <<users, messages, live, nextSock, nextId, now, out, last, acked, c2s>>

\* the server takes the next event of a socket: here always a "user joined"
ServerUserJoined(s, t) ==
  /\ c2s[s] # <<>>
  /\ Head(c2s[s]).type = "user joined"
  /\ OnUserJoined(s, Head(c2s[s]).username, t)
  /\ c2s' = [c2s EXCEPT ![s] = Tail(@)]
  /\ client' = [client EXCEPT ![Head(c2s[s]).from].joined = TRUE]
  /\ UNCHANGED acked

\* the server notices that the transport of a socket is gone
ServerDisconnect(s, t) ==
  /\ \A k \in Clients : ~(client[k].connected /\ client[k].sid = s)
  /\ OnDisconnect(s, t)
  /\ c2s' = [c2s EXCEPT ![s] = <<>>]
  /\ UNCHANGED <<acked, client>>

Connects == \E k \in Clients : ClientConnect(k)
Submits == \E k \in Clients, typed \in TypedNames : SubmitUsername(k, typed)
Losses == \E k \in Clients : TransportLoss(k)
ServerJoins == \E s \in SockIds, t \in Clock : ServerUserJoined(s, t)
ServerDisconnects == \E s \in SockIds, t \in Clock : ServerDisconnect(s, t)

NextClient ==
  \/ Connects
  \/ Submits
  \/ Losses
  \/ ServerJoins
  \/ ServerDisconnects

SpecClient == Init /\ [][NextClient]_vars

\* ------------------------------------------- clients and server, both ways
PostTexts == {"hi"}     \* what a user types into the message input

\* socket.emit("chat message", {text, sender}) by client k
ChatEvent(k, text, sender) ==
  [type |-> "chat message", from |-> k, text |-> text, sender |-> sender]

\* socket.emit("read receipt", {messageId, reader}) by client k; via tells which
\* of the three triggers emitted it
ReceiptEvent(k, messageId, reader, via) ==
  [type |-> "read receipt", from |-> k, messageId |-> messageId, reader |-> reader,
   via |-> via]

\* a merge that appends whatever arrives
mergeMessageAlways(prevMessages, msg) == Append(prevMessages, msg)

\* the updater of setMessages in handleChatMessage
mergeMessage(prevMessages, msg) ==
  IF \E i \in 1..Len(prevMessages) : prevMessages[i].id = msg.id
  THEN prevMessages
  ELSE Append(prevMessages, msg)

\* the receipt handleChatMessage sends by itself: usernameRef.current is set
\* and is not the sender
autoReceiptEmits(k, c, msg) ==
  IF c.username # "" /\ msg.sender # c.username
  THEN <<ReceiptEvent(k, msg.id, c.username, "arrival")>>
  ELSE <<>>

\* an update handler that inserts a record it does not hold
replaceMessageUpsert(prevMessages, updatedMsg) ==
  IF \E i \in 1..Len(prevMessages) : prevMessages[i].id = updatedMsg.id
  THEN [i \in 1..Len(prevMessages) |->
          IF prevMessages[i].id = updatedMsg.id THEN updatedMsg ELSE prevMessages[i]]
  ELSE Append(prevMessages, updatedMsg)

\* an update handler that keeps the mirror as it is
replaceMessageNever(prevMessages, updatedMsg) == prevMessages

\* an update that moves the updated record to the end of the mirror
replaceMessageAtEnd(prevMessages, updatedMsg) ==
  IF \E i \in 1..Len(prevMessages) : prevMessages[i].id = updatedMsg.id
  THEN Append(SelectSeq(prevMessages, LAMBDA m : m.id # updatedMsg.id), updatedMsg)
  ELSE prevMessages

\* the updater of setMessages in handleMessageUpdated
replaceMessage(prevMessages, updatedMsg) ==
  [i \in 1..Len(prevMessages) |->
     IF prevMessages[i].id = updatedMsg.id THEN updatedMsg ELSE prevMessages[i]]

\* the socket of client k hands it the next push: handleChatMessage,
\* handleMessageUpdated or handleOnlineUsers
ClientReceive(k) ==
  LET c == client[k]
      push == Head(c.inbox)
  IN /\ c.connected
     /\ c.inbox # <<>>
     /\ IF push.event = "chat message"
        THEN /\ client' = [client EXCEPT ![k].inbox = Tail(@),
                                         ![k].messages = mergeMessage(@, push.payload)]
             /\ c2s' = [c2s EXCEPT ![c.sid] = @ \o autoReceiptEmits(k, c, push.payload)]
        ELSE IF push.event = "message updated"
        THEN /\ client' = [client EXCEPT ![k].inbox = Tail(@),
                                         ![k].messages = replaceMessage(@, push.payload)]
             /\ c2s' = c2s
        ELSE /\ client' = [client EXCEPT ![k].inbox = Tail(@),
                                         ![k].onlineUsers = push.payload]
             /\ c2s' = c2s
     /\ UNCHANGED <<users, messages, live, nextSock, nextId, now, out, last, acked>>

\* handleMessageSubmit with the text in the input; a post is explored only
\* while the run may still append to the log and no post of the socket waits
ClientPost(k, text) ==
  LET c == client[k]
  IN /\ trim(text) # ""
     /\ c.hasUsername
     /\ c.connected
     /\ nextId <= MaxMsgs
     /\ \A i \in 1..Len(c2s[c.sid]) : c2s[c.sid][i].type # "chat message"
     /\ c2s' = [c2s EXCEPT ![c.sid] = Append(@, ChatEvent(k, trim(text), c.username))]
     /\ UNCHANGED <<users, messages, live, nextSock, nextId, now, out, last, acked, client>>

\* the emissions of a handler reach the sockets they are addressed to: each
\* connected client gets, in emission order, those addressed to its socket
Deliver(cl, o) ==
  [k \in Clients |->
     IF cl[k].connected
     THEN [cl[k] EXCEPT !.inbox =
             @ \o [i \in 1..Len(SelectSeq(o, LAMBDA e : cl[k].sid \in e.to)) |->
                     [event |-> SelectSeq(o, LAMBDA e : cl[k].sid \in e.to)[i].event,
                      payload |-> SelectSeq(o, LAMBDA e : cl[k].sid \in e.to)[i].payload]]]
     ELSE cl[k]]

\* the server takes the next event of a socket and runs its handler; what the
\* handler emits is put in flight
Serve(s, t) ==
  LET e == IF c2s[s] # <<>> THEN Head(c2s[s]) ELSE JoinEvent(1, "", FALSE)
  IN /\ c2s[s] # <<>>
     /\ IF e.type = "user joined" THEN OnUserJoined(s, e.username, t)
        ELSE IF e.type = "chat message" THEN OnChatMessage(s, e.text, e.sender, t)
        ELSE IF e.type = "change username"
        THEN OnChangeUsername(s, e.oldUsername, e.newUsername, t)
        ELSE OnReadReceipt(s, e.messageId, e.reader)
     /\ c2s' = [c2s EXCEPT ![s] = Tail(@)]
     /\ client' = Deliver([client EXCEPT ![e.from].joined = @ \/ e.type = "user joined"], out')
     /\ UNCHANGED acked

\* the server notices that the transport of a socket is gone, and what the
\* disconnect handler emits is put in flight
ServeDisconnect(s, t) ==
  /\ \A k \in Clients : ~(client[k].connected /\ client[k].sid = s)
  /\ OnDisconnect(s, t)
  /\ c2s' = [c2s EXCEPT ![s] = <<>>]
  /\ client' = Deliver(client, out')
  /\ UNCHANGED acked

Posts == \E k \in Clients, text \in PostTexts : ClientPost(k, text)
Receives == \E k \in Clients : ClientReceive(k)
Serves == \E s \in SockIds, t \in Clock : Serve(s, t)
ServeDisconnects == \E s \in SockIds, t \in Clock : ServeDisconnect(s, t)

NextSync ==
  \/ Connects
  \/ Submits
  \/ Posts
  \/ Receives
  \/ Losses
  \/ Serves
  \/ ServeDisconnects

SpecSync == Init /\ [][NextSync]_vars

\* ------------------------------------- a client that comes back to the chat
\* client 1 had joined as Ana on a socket of the past and handled the pushes of
\* its join; its transport dropped and the server handled the disconnect.
\* The two notices have the ids a and b; client 2 has not connected yet
Parted(a, b) ==
  LET joinedNotice == Message(a, "Ana joined the chat", System, 0, <<"Ana">>)
      leftNotice == Message(b, "Ana left the chat", System, 1, <<>>)
  IN /\ users = <<>>
     /\ messages = <<joinedNotice, leftNotice>>
     /\ live = {}
     /\ now = 1
     /\ out = <<IoEmit("chat message", leftNotice, {}), IoEmit("online users", <<>>, {})>>
     /\ last = "disconnect"
     /\ acked = {}
     /\ client = [k \in Clients |->
                    IF k = 1
                    THEN [InitClient EXCEPT !.username = "Ana", !.hasUsername = TRUE,
                                            !.joined = TRUE,
                                            !.messages = <<joinedNotice>>]
                    ELSE InitClient]
     /\ c2s = [s \in SockIds |-> <<>>]

\* the parted state, with every socket id and MaxMsgs records still to come
InitResume == Parted(-1, 0) /\ nextSock = 1 /\ nextId = 1

\* from there on the transport holds
NextResume ==
  \/ Connects
  \/ Submits
  \/ Receives
  \/ Serves

SpecResume == InitResume /\ [][NextResume]_vars

\* ----------------------------- clients and server while the transport holds
\* two clients have joined as Ana and Bob, on sockets 1 and 2, and everything
\* that was in flight has been handled; the two notices have the ids a and b.
\* Bob's client handled the broadcast of its own notice before the replay
Settled(a, b) ==
  LET notices == <<Message(a, "Ana joined the chat", System, 0, <<"Ana", "Bob">>),
                   Message(b, "Bob joined the chat", System, 1, <<"Bob", "Ana">>)>>
      app(name, sid, mirror) ==
        [InitClient EXCEPT !.username = name, !.hasUsername = TRUE, !.connected = TRUE,
                           !.sid = sid, !.joined = TRUE, !.messages = mirror,
                           !.onlineUsers = <<"Ana", "Bob">>]
  IN /\ users = <<[id |-> 1, name |-> "Ana"], [id |-> 2, name |-> "Bob"]>>
     /\ messages = notices
     /\ live = {1, 2}
     /\ nextSock = 3
     /\ now = 1
     /\ out = <<>>
     /\ last = "read receipt"
     /\ acked = {}
     /\ client = [k \in Clients |->
                    IF k = 1 THEN app("Ana", 1, notices)
                    ELSE app("Bob", 2, <<notices[2], notices[1]>>)]
     /\ c2s = [s \in SockIds |-> <<>>]

\* the server after start, or the settled chat of Ana and Bob with a log that
\* may still grow
InitSteady ==
  \/ Init
  \/ Settled(-1, 0) /\ nextId = 1

NextSteady ==
  \/ Connects
  \/ Submits
  \/ Posts
  \/ Receives
  \/ Serves

SpecSteady == InitSteady /\ [][NextSteady]_vars

\* ------------------------------------- clients that look at their messages
MaxQueue == 1     \* events waiting on a socket when the user acts on the page

\* a scan that sends a receipt for every record of another sender
visibilityEmitsAll(k, c) ==
  LET unread == SelectSeq(c.messages, LAMBDA msg : msg.sender # c.username)
  IN [i \in 1..Len(unread) |-> ReceiptEvent(k, unread[i].id, c.username, "visible")]

\* currentMessages.forEach in handleVisibilityChange: a receipt for each record
\* that is not sent by username and not read by username
visibilityEmits(k, c) ==
  LET unread == SelectSeq(c.messages,
                          LAMBDA msg : msg.sender # c.username
                                         /\ ~Includes(msg.readBy, c.username))
  IN [i \in 1..Len(unread) |-> ReceiptEvent(k, unread[i].id, c.username, "visible")]

\* handleVisibilityChange when the tab has become visible
VisibilityChange(k) ==
  LET c == client[k]
  IN /\ c.username # ""
     /\ c.connected
     /\ Len(c2s[c.sid]) < MaxQueue
     /\ c2s' = [c2s EXCEPT ![c.sid] = @ \o visibilityEmits(k, c)]
     /\ UNCHANGED <<users, messages, live, nextSock, nextId, now, out, last, acked, client>>

\* observerCallback for one intersecting bubble, the one of the record with
\* this id: currentMessages.find, then the same test as the scan
observerEmits(k, c, messageId) ==
  LET found == SelectSeq(c.messages, LAMBDA m : m.id = messageId)
  IN IF found # <<>> /\ found[1].sender # c.username
          /\ ~Includes(found[1].readBy, c.username)
     THEN <<ReceiptEvent(k, messageId, c.username, "viewport")>>
     ELSE <<>>

\* a bubble of the rendered chat view enters the viewport; the observer exists
\* when the view is shown to a named, connected client that has messages
ObserverCallback(k, messageId) ==
  LET c == client[k]
  IN /\ c.username # ""
     /\ c.hasUsername
     /\ c.connected
     /\ messageId \in {c.messages[i].id : i \in 1..Len(c.messages)}
     /\ Len(c2s[c.sid]) < MaxQueue
     /\ c2s' = [c2s EXCEPT ![c.sid] = @ \o observerEmits(k, c, messageId)]
     /\ UNCHANGED <<users, messages, live, nextSock, nextId, now, out, last, acked, client>>

Visibles == \E k \in Clients : VisibilityChange(k)
Observes == \E k \in Clients, messageId \in MsgIds : ObserverCallback(k, messageId)

NextRead ==
  \/ Connects
  \/ Submits
  \/ Receives
  \/ Serves
  \/ Visibles
  \/ Observes

SpecRead == Init /\ [][NextRead]_vars

\* ------------------------------------------------------- the rename flow
\* socket.emit("change username", {oldUsername, newUsername}) by client k
RenameEvent(k, oldUsername, newUsername) ==
  [type |-> "change username", from |-> k, oldUsername |-> oldUsername,
   newUsername |-> newUsername]

\* an effect that emits the rename and stays in the rename flow
effectRunKeepsFlags(k, c) ==
  IF c.username # "" /\ c.hasUsername /\ c.connected /\ c.changingUsername
  THEN [app |-> c, emits |-> <<RenameEvent(k, c.oldUsername, trim(c.username))>>]
  ELSE [app |-> c, emits |-> <<>>]

\* the join/rename effect after a render that changed its dependencies: in
\* the rename flow with a new name it emits the rename and clears the flags,
\* which changes its dependencies, so that it runs once more
effectRun(k, c) ==
  IF c.username # "" /\ c.hasUsername /\ c.connected
  THEN IF c.changingUsername /\ trim(c.username) # c.oldUsername
       THEN LET after == [c EXCEPT !.changingUsername = FALSE, !.oldUsername = ""]
            IN [app |-> after,
                emits |-> <<RenameEvent(k, c.oldUsername, trim(c.username))>>
                            \o joinEffectEmits(k, after)]
       ELSE IF ~c.changingUsername
       THEN [app |-> c, emits |-> joinEffectEmits(k, c)]
       ELSE [app |-> c, emits |-> <<>>]
  ELSE [app |-> c, emits |-> <<>>]

\* handleChangeUsername, the button of the chat header; a rename is explored
\* only while the run may still append to the log and fewer than MaxQueue
\* events of the socket are in flight, to the server or from it
StartChangeUsername(k) ==
  LET c == client[k]
  IN /\ c.hasUsername
     /\ c.connected
     /\ nextId <= MaxMsgs
     /\ Len(c2s[c.sid]) + Len(c.inbox) < MaxQueue
     /\ client' = [client EXCEPT ![k].oldUsername = c.username,
                                  ![k].changingUsername = TRUE,
                                  ![k].hasUsername = FALSE]
     /\ UNCHANGED <<users, messages, live, nextSock, nextId, now, out, last, acked, c2s>>

\* handleUsernameUpdate, the state it sets for the confirmed name
usernameUpdate(c, newUsername) ==
  IF newUsername = c.oldUsername
  THEN [c EXCEPT !.changingUsername = FALSE, !.hasUsername = TRUE, !.oldUsername = ""]
  ELSE IF c.connected
  THEN [c EXCEPT !.username = newUsername, !.hasUsername = TRUE]
  ELSE [c EXCEPT !.connectionError = TRUE, !.changingUsername = FALSE,
                 !.hasUsername = TRUE]

\* the user leaves typed in the form of the rename flow and submits it:
\* handleUsernameSubmit calls handleUsernameUpdate with the trimmed name, and
\* the join/rename effect runs after the render. Without a socket in socketRef
\* the handler only reports an error: the socket it then opens has no
\* listeners and is left out
ConfirmUsername(k, typed) ==
  LET c == client[k]
      run == effectRun(k, usernameUpdate([c EXCEPT !.username = typed], trim(typed)))
  IN /\ c.changingUsername
     /\ ~c.hasUsername
     /\ c.socket
     /\ trim(typed) # ""
     /\ client' = [client EXCEPT ![k] = run.app]
     /\ c2s' = IF run.emits # <<>>
               THEN [c2s EXCEPT ![c.sid] = @ \o run.emits]
               ELSE c2s
     /\ UNCHANGED <<users, messages, live, nextSock, nextId, now, out, last, acked>>

\* the rename flow is followed in one browser; the page of the other client
\* stays as mounted
Page == 1

PageConnects == ClientConnect(Page)
PageSubmits == \E typed \in TypedNames : SubmitUsername(Page, typed)
StartChanges == StartChangeUsername(Page)
Confirms == \E typed \in TypedNames : ConfirmUsername(Page, typed)
PageReceives == ClientReceive(Page)

\* the rename flow while the transport holds
NextRename ==
  \/ PageConnects
  \/ PageSubmits
  \/ StartChanges
  \/ Confirms
  \/ PageReceives
  \/ Serves

SpecRename == Init /\ [][NextRename]_vars

\* --------------------------------------------- a transport that fails
\* handleConnectError: a connection attempt of the socket failed; the handler
\* disconnects the socket, which ends its reconnection attempts, and clears
\* socketRef, which the mount effect never fills again
ConnectError(k) ==
  /\ ~client[k].connected
  /\ client[k].socket
  /\ client' = [client EXCEPT ![k].socket = FALSE, ![k].connectionError = TRUE]
  /\ UNCHANGED <<users, messages, live, nextSock, nextId, now, out, last, acked, c2s>>

ConnectErrors == \E k \in Clients : ConnectError(k)

NextRecover ==
  \/ Connects
  \/ Submits
  \/ Receives
  \/ Losses
  \/ ConnectErrors
  \/ Serves
  \/ ServeDisconnects

SpecRecover == Init /\ [][NextRecover]_vars

\* ------------------------------------------- typing into the username form
\* the user edits the input of the username form, which is bound to
\* setUsername: the ref effect copies the text to usernameRef, and the
\* join/rename effect runs and emits nothing, since hasUsername is false. The
\* form is rendered in the rename flow, and before the join while no
\* connection error is shown
TypeUsername(k, typed) ==
  LET c == client[k]
  IN /\ ~c.hasUsername
     /\ c.changingUsername \/ ~c.connectionError
     /\ typed # c.username
     /\ client' = [client EXCEPT ![k].username = typed]
     /\ UNCHANGED <<users, messages, live, nextSock, nextId, now, out, last, acked, c2s>>

Types == \E k \in Clients, typed \in TypedNames : TypeUsername(k, typed)

NextTyping ==
  \/ Connects
  \/ Types
  \/ Submits
  \/ Receives
  \/ Serves

SpecTyping == Init /\ [][NextTyping]_vars

\* ------------------------------------------ names typed with white space
PaddedNames == {"Ana", " Ana"}     \* typed with and without a leading blank

PaddedSubmits == \E k \in Clients, typed \in PaddedNames : SubmitUsername(k, typed)

NextPadded ==
  \/ Connects
  \/ PaddedSubmits
  \/ Receives
  \/ Serves

SpecPadded == Init /\ [][NextPadded]_vars

\* ---------------------------------------------------------- fair delivery
\* the transport delivers every push and the server handles every event that
\* waits: a client's socket handlers and the server's handlers run whenever
\* they have something to handle
SpecDrain == Init /\ [][NextSteady]_vars /\ WF_vars(Receives) /\ WF_vars(Serves)

\* ------------------------------------------------------------------ logout
\* handleTrueLogout, the button of the chat header: the socket is disconnected,
\* socketRef is cleared and every state is reset; what the socket has sent
\* stays with the server, what was in flight to it is lost
Logout(k) ==
  /\ client[k].hasUsername
  /\ client[k].socket
  /\ client' = [client EXCEPT ![k] = [InitClient EXCEPT !.socket = FALSE]]
  /\ UNCHANGED <<users, messages, live, nextSock, nextId, now, out, last, acked, c2s>>

Logouts == \E k \in Clients : Logout(k)

NextLogout ==
  \/ Connects
  \/ Submits
  \/ Logouts
  \/ Receives
  \/ Serves
  \/ ServeDisconnects

\* the transport connects a socket that is connecting, pushes are delivered
\* and the server handles what waits
SpecLogout ==
  Init /\ [][NextLogout]_vars
       /\ WF_vars(Connects) /\ WF_vars(Receives) /\ WF_vars(Serves)

\* ------------------------------------------------------ the message list
\* a list that shows the mirror as it is stored
sortedMessagesAsStored(msgs) == msgs

\* MessageList: the mirror sorted by timestamp, which is what the page shows;
\* Array.prototype.sort is stable, and the timestamps are compared as the
\* milliseconds the server stamped
sortedMessages(msgs) == SortSeq(msgs, LAMBDA a, b : a.timestamp < b.timestamp)

\* ------------------------------------------------------------------ claims
ReadBySet(m) == Range(m.readBy)
Ids(msgs) == {msgs[i].id : i \in 1..Len(msgs)}
Last(msgs) == msgs[Len(msgs)]
\* the names the registry binds to a socket that is connected
LiveNames == {users[j].name : j \in {i \in 1..Len(users) : users[i].id \in live}}
OnlineEmissions == {i \in 1..Len(out) : out[i].event = "online users"}

\* C1: in every step, whatever the event, every record of the log stays at its
\* position and its readBy after the step contains its readBy before the step.
C1_ReadByOnlyGrows ==
  [][/\ Len(messages') >= Len(messages)
     /\ \A i \in 1..Len(messages) :
          /\ messages'[i].id = messages[i].id
          /\ ReadBySet(messages[i]) \subseteq ReadBySet(messages'[i])]_vars

\* a receipt has just added a reader to a record that already had one
C1_Witness ==
  /\ last = "read receipt"
  /\ out # <<>>
  /\ \E i \in 1..Len(messages) : Cardinality(ReadBySet(messages[i])) >= 2

\* C2: a read receipt leaves the registry alone and adds at most one reader to
\* one record; handling the same receipt again right after it changes nothing
\* and emits nothing; a receipt for an id that is not in the log changes
\* nothing and emits nothing.
C2_ReceiptIdempotent ==
  [][\A s \in SockIds, messageId \in MsgIds, reader \in Readers :
       OnReadReceipt(s, messageId, reader) =>
         /\ users' = users
         /\ Len(messages') = Len(messages)
         /\ \A i \in 1..Len(messages) :
              Len(messages'[i].readBy) <= Len(messages[i].readBy) + 1
         /\ messageId \notin Ids(messages) => (messages' = messages /\ out' = <<>>)
         /\ markRead(messages', messageId, reader, live').messages = messages'
         /\ markRead(messages', messageId, reader, live').emits = <<>>]_vars

\* a receipt was dropped while the log holds a record that a receipt changed
C2_Witness ==
  /\ last = "read receipt"
  /\ out = <<>>
  /\ \E i \in 1..Len(messages) :
       /\ Includes(messages[i].readBy, "Bob")
       /\ markRead(messages, messages[i].id, "Bob", live).emits = <<>>

\* C3: a post from any connected socket, joined or not, with any text, leaves
\* the old records as they were and appends one record with a fresh id, the
\* given text and sender, and a readBy that holds the sender and nobody else.
C3_PostAppendsOne ==
  [][\A s \in SockIds, text \in Texts, sender \in Names, t \in Clock :
       OnChatMessage(s, text, sender, t) =>
         /\ Len(messages') = Len(messages) + 1
         /\ SubSeq(messages', 1, Len(messages)) = messages
         /\ Last(messages').id \notin Ids(messages)
         /\ Last(messages').text = text
         /\ Last(messages').sender = sender
         /\ ReadBySet(Last(messages')) = {sender}]_vars

\* an empty text was posted while no socket had joined
C3_Witness ==
  /\ last = "chat message"
  /\ users = <<>>
  /\ Last(messages).text = ""
  /\ Len(messages) = 2

\* C4: every receipt the server has handled for a record of the log is in that
\* record's readBy, whatever was handled before, between and after.
C4_NoReceiptLost ==
  \A p \in acked :
    \E i \in 1..Len(messages) :
      messages[i].id = p[1] /\ Includes(messages[i].readBy, p[2])

\* receipts of two different readers were handled for a record posted by a third
C4_Witness ==
  \E i \in 1..Len(messages) :
    /\ {<<messages[i].id, "Ana">>, <<messages[i].id, "Bob">>} \subseteq acked
    /\ messages[i].sender = ""
    /\ ReadBySet(messages[i]) = {"", "Ana", "Bob"}

\* C5: the payload of an online users broadcast is, as a set, the set of names
\* bound to a connected socket.
C5_OnlineSetExact ==
  \A i \in OnlineEmissions : Range(out[i].payload) = LiveNames

\* C6: no name occurs twice in the payload of an online users broadcast.
C6_OnlineNamesDistinct ==
  \A i \in OnlineEmissions :
    \A a, b \in 1..Len(out[i].payload) :
      a # b => out[i].payload[a] # out[i].payload[b]

C8_SameNameRejoin ==
  [][\A s \in SockIds, username \in Names, t \in Clock :
       (OnUserJoined(s, username, t) /\ MapHas(users, s) /\ MapGet(users, s).val = username) =>
         /\ messages' = messages
         /\ users' = users
         /\ out' = ReplayHistory(messages, s) \o <<broadcastOnlineUsers(users, live)>>]_vars

\* C9: a join(Y) on a socket with no binding appends "Y joined the chat", on a
\* socket bound to another name X it appends "X changed their name to Y"; the
\* record has sender System and readBy {Y}, and the socket is bound to Y.
C9_JoinNotice ==
  [][\A s \in SockIds, username \in Names, t \in Clock :
       (OnUserJoined(s, username, t) /\ MapGet(users, s) # [def |-> TRUE, val |-> username]) =>
         /\ Len(messages') = Len(messages) + 1
         /\ SubSeq(messages', 1, Len(messages)) = messages
         /\ Last(messages').sender = System
         /\ Last(messages').readBy = <<username>>
         /\ Last(messages').text =
              IF MapHas(users, s)
              THEN MapGet(users, s).val \o " changed their name to " \o username
              ELSE username \o " joined the chat"
         /\ MapGet(users', s) = [def |-> TRUE, val |-> username]]_vars

\* C10: when the server handles the join a client re-emitted after it had
\* reconnected, the log stays as it is.
C10_RejoinAddsNothing ==
  [][\A s \in SockIds, t \in Clock :
       (ServerUserJoined(s, t) /\ Head(c2s[s]).rejoin) => messages' = messages]_vars

\* C12: a disconnect of a socket that has a binding X removes the binding,
\* appends one record with sender System, text "X left the chat" and an empty
\* readBy, broadcasts it and then broadcasts the online set.
C12_DisconnectOfJoined ==
  [][\A s \in SockIds, t \in Clock :
       (OnDisconnect(s, t) /\ MapHas(users, s)) =>
         /\ ~MapHas(users', s)
         /\ Len(messages') = Len(messages) + 1
         /\ SubSeq(messages', 1, Len(messages)) = messages
         /\ Last(messages').sender = System
         /\ Last(messages').text = MapGet(users, s).val \o " left the chat"
         /\ Last(messages').readBy = <<>>
         /\ out' = <<IoEmit("chat message", Last(messages'), live'),
                     IoEmit("online users", getOnlineUsers(users'), live')>>]_vars

\* C13: the registry has at most one entry per socket and an entry only for a
\* socket that is connected.
C13_RegistryOfLiveSockets ==
  /\ \A i \in 1..Len(users) : users[i].id \in live
  /\ \A i, j \in 1..Len(users) : users[i].id = users[j].id => i = j

\* C14: a rename on a socket that has no entry leaves it without an entry.
C14_RenameCreatesNoEntry ==
  [][\A s \in SockIds, oldUsername \in Names, newUsername \in NewNames, t \in Clock :
       (OnChangeUsername(s, oldUsername, newUsername, t) /\ ~MapHas(users, s)) =>
         ~MapHas(users', s)]_vars

\* C15: a rename(old, new) with old # new and new not blank appends one record
\* "old changed their name to new" with sender System and readBy {new},
\* broadcasts it, binds the socket to new and then broadcasts the online set.
C15_RenameAccepted ==
  [][\A s \in SockIds, oldUsername \in Names, newUsername \in NewNames, t \in Clock :
       (OnChangeUsername(s, oldUsername, newUsername, t)
          /\ oldUsername # newUsername /\ newUsername \notin {"", " "}) =>
         /\ Len(messages') = Len(messages) + 1
         /\ SubSeq(messages', 1, Len(messages)) = messages
         /\ Last(messages').sender = System
         /\ Last(messages').text = oldUsername \o " changed their name to " \o newUsername
         /\ ReadBySet(Last(messages')) = {newUsername}
         /\ MapGet(users', s) = [def |-> TRUE, val |-> newUsername]
         /\ out' = <<IoEmit("chat message", Last(messages'), live),
                     IoEmit("online users", getOnlineUsers(users'), live)>>]_vars

\* a rename from Ana to Bob was accepted and the socket is bound to Bob
C15_Witness ==
  /\ last = "change username"
  /\ Len(out) = 2
  /\ Last(messages).text = "Ana changed their name to Bob"
  /\ \E i \in 1..Len(users) : users[i].name = "Bob"

\* C16: a rename whose new name is blank, or equal to the old name, changes
\* neither the registry nor the log, emits nothing and leaves every socket
\* connected.
C16_RenameIgnored ==
  [][\A s \in SockIds, oldUsername \in Names, newUsername \in NewNames, t \in Clock :
       (OnChangeUsername(s, oldUsername, newUsername, t)
          /\ (newUsername \in {"", " "} \/ newUsername = oldUsername)) =>
         /\ users' = users
         /\ messages' = messages
         /\ out' = <<>>
         /\ live' = live]_vars

\* a rename was dropped while the log and the registry were not empty
C16_Witness ==
  /\ last = "change username"
  /\ out = <<>>
  /\ users # <<>>
  /\ messages # <<>>

\* C17: a receipt for a record of the log whose readBy lacks the reader appends
\* the reader to that record's readBy, changes nothing else, and emits one
\* message updated carrying the record as it now is in the log, to every
\* connected socket.
C17_ReceiptRecorded ==
  [][\A s \in SockIds, messageId \in MsgIds, reader \in Readers :
       (OnReadReceipt(s, messageId, reader)
          /\ \E i \in 1..Len(messages) :
               messages[i].id = messageId /\ reader \notin ReadBySet(messages[i])) =>
         /\ Len(messages') = Len(messages)
         /\ \A i \in 1..Len(messages) :
              IF messages[i].id = messageId
              THEN messages'[i] = [messages[i] EXCEPT !.readBy = Append(@, reader)]
              ELSE messages'[i] = messages[i]
         /\ Len(out') = 1
         /\ out'[1].event = "message updated"
         /\ out'[1].to = live
         /\ out'[1].payload \in Range(messages')
         /\ out'[1].payload.id = messageId]_vars

\* a receipt of Bob was recorded and broadcast to two sockets
C17_Witness ==
  /\ last = "read receipt"
  /\ Len(out) = 1
  /\ Cardinality(out[1].to) = 2
  /\ Includes(out[1].payload.readBy, "Bob")

\* the emissions of a handler that are broadcasts: all but the history replay
\* of a join, which sits between the notice, if one was created, and the last
Broadcasts(o, event, created) ==
  IF event = "user joined"
  THEN {i \in 1..Len(o) : i = Len(o) \/ (created /\ i = 1)}
  ELSE 1..Len(o)

\* C18: every handler that changes the log or the registry emits, and each of
\* its message, message updated and online users broadcasts goes to every
\* socket connected at that moment, the socket it came from included.
C18_FanOutGlobal ==
  [][/\ (messages' # messages \/ users' # users) => out' # <<>>
     /\ \A i \in Broadcasts(out', last', messages' # messages) : out'[i].to = live'
     /\ \A s \in SockIds :
          (s \in live /\ s \in live' /\ out' # <<>>) =>
            \E i \in 1..Len(out') : s \in out'[i].to]_vars

\* a post was broadcast to two connected sockets
C18_Witness ==
  /\ last = "chat message"
  /\ Len(out) = 1
  /\ Cardinality(out[1].to) = 2

\* C11: a join sends to the joining socket, and to it only, one chat message
\* push per record for the min(50, length) last records of the log as it is
\* after the join, oldest first, between the broadcast of the join notice (if
\* one was created) and the online users broadcast; the log keeps every record
\* it had.
C11_ReplayLastFifty ==
  [][\A s \in SockIds, username \in Names, t \in Clock :
       OnUserJoined(s, username, t) =>
         LET b == IF messages' # messages THEN 1 ELSE 0
             k == Len(messages')
             n == Min(messageHistoryLimit, k)
         IN /\ Len(out') = b + n + 1
            /\ \A i \in 1..n :
                 out'[b + i] = SocketEmit("chat message", messages'[k - n + i], s)
            /\ SubSeq(messages', 1, Len(messages)) = messages]_vars

\* a join onto a log of more than 50 records has replayed 50 of them, after the
\* broadcast of its notice, while a second socket was connected
C11_Witness ==
  /\ last = "user joined"
  /\ Len(messages) > messageHistoryLimit
  /\ Len(out) = messageHistoryLimit + 2
  /\ out[2].payload = messages[Len(messages) - messageHistoryLimit + 1]
  /\ Cardinality(live) = 2
  /\ Cardinality(out[2].to) = 1

\* the chat message pushes of the last handler that are addressed to socket s
PushesTo(o, s) == {i \in 1..Len(o) : o[i].event = "chat message" /\ s \in o[i].to}

\* C19 as stated: no socket is pushed two records of the log in the opposite
\* order of their positions in the log.
C19_PushesInLogOrder ==
  \A s \in SockIds : \A i, j \in PushesTo(out, s) :
    i < j => FindIndex(messages, out[i].payload.id) <= FindIndex(messages, out[j].payload.id)

\* C19, amended: a broadcast chat message carries the record its handler has
\* just appended at the end of the log, so broadcasts follow the commit order;
\* the pushes of one history replay are in log order among themselves.
C19_BroadcastsInCommitOrder ==
  [][/\ \A i \in Broadcasts(out', last', messages' # messages) :
          out'[i].event = "chat message" =>
            /\ Len(messages') = Len(messages) + 1
            /\ out'[i].payload = Last(messages')
     /\ last' = "user joined" =>
          \A i, j \in (1..Len(out')) \ Broadcasts(out', last', messages' # messages) :
            i < j => FindIndex(messages', out'[i].payload.id)
                       < FindIndex(messages', out'[j].payload.id)]_vars

\* a join has broadcast its notice, the second record of the log, to the
\* joining socket and then replayed the first record and the notice to it
C19_Witness ==
  /\ last = "user joined"
  /\ Len(messages) = 2
  /\ Len(out) = 4
  /\ out[1].payload = messages[2]
  /\ out[2].payload = messages[1]
  /\ out[2].to \subseteq out[1].to

\* C20: after every step no two entries of a client's mirror share an id, and
\* when a client has handled a chat message push, handling the same push once
\* more would leave its mirror as it is.
C20_MirrorIdsUnique ==
  [][\A k \in Clients :
       /\ \A i, j \in 1..Len(client'[k].messages) :
            client'[k].messages[i].id = client'[k].messages[j].id => i = j
       /\ (ClientReceive(k) /\ Head(client[k].inbox).event = "chat message") =>
            mergeMessage(client'[k].messages, Head(client[k].inbox).payload)
              = client'[k].messages]_vars

\* a client has handled the push of one record twice (it has sent two receipts
\* for it on its socket) and its mirror holds that record alone
C20_Witness ==
  \E k \in Clients :
    /\ client[k].connected
    /\ Len(client[k].messages) = 1
    /\ client[k].inbox = <<>>
    /\ \E i, j \in 1..Len(c2s[client[k].sid]) :
         /\ i < j
         /\ c2s[client[k].sid][i] = c2s[client[k].sid][j]
         /\ c2s[client[k].sid][i].type = "read receipt"
         /\ c2s[client[k].sid][i].messageId = client[k].messages[1].id

\* C21: when a client handles a chat message push whose id is in its mirror,
\* the mirror stays as it is; when it handles a message updated push whose id
\* is in its mirror, the entry with that id becomes the pushed record and every
\* other entry stays where it was and as it was.
C21_DropAndReplace ==
  [][\A k \in Clients :
       (ClientReceive(k)
          /\ Head(client[k].inbox).event \in {"chat message", "message updated"}
          /\ Head(client[k].inbox).payload.id \in Ids(client[k].messages)) =>
         LET push == Head(client[k].inbox)
             old == client[k].messages
             new == client'[k].messages
         IN /\ push.event = "chat message" => new = old
            /\ push.event = "message updated" =>
                 /\ Len(new) = Len(old)
                 /\ \A i \in 1..Len(old) :
                      new[i] = IF old[i].id = push.payload.id THEN push.payload ELSE old[i]]_vars

\* a client that holds two records has replaced the first by a pushed version
\* that has one more reader, and the second is still in its place
C21_Witness ==
  \E k \in Clients :
    /\ Len(client[k].messages) = 2
    /\ Len(client[k].messages[1].readBy) = 2
    /\ client[k].messages[1].id = messages[1].id
    /\ client[k].messages[2].id = messages[2].id

\* C27: in every step the log keeps its records in place with their id, text,
\* sender and timestamp; a record's readBy changes only in a read receipt
\* step, and then by one reader appended.
C27_LogAppendOnly ==
  [][/\ Len(messages') >= Len(messages)
     /\ \A i \in 1..Len(messages) :
          /\ messages'[i].id = messages[i].id
          /\ messages'[i].text = messages[i].text
          /\ messages'[i].sender = messages[i].sender
          /\ messages'[i].timestamp = messages[i].timestamp
          /\ messages'[i].readBy # messages[i].readBy =>
               /\ last' = "read receipt"
               /\ \E reader \in Readers :
                    messages'[i].readBy = Append(messages[i].readBy, reader)]_vars

\* a receipt has added a reader to the first of two records of the log
C27_Witness ==
  /\ last = "read receipt"
  /\ Len(messages) = 2
  /\ out # <<>>
  /\ out[1].payload.id = messages[1].id
  /\ Len(messages[1].readBy) >= 2

\* C28: a disconnect of a socket that has no registry entry leaves registry
\* and log as they are and emits nothing.
C28_DisconnectOfAnonymous ==
  [][\A s \in SockIds, t \in Clock :
       (OnDisconnect(s, t) /\ ~MapHas(users, s)) =>
         /\ users' = users
         /\ messages' = messages
         /\ out' = <<>>]_vars

\* a socket without an entry has disconnected while another socket was bound
C28_Witness ==
  /\ last = "disconnect"
  /\ out = <<>>
  /\ Len(users) = 1
  /\ users[1].id \in live
  /\ nextSock = 3

\* the events a step has added to the queue of socket s
Emitted(s) ==
  IF Len(c2s'[s]) > Len(c2s[s])
  THEN SubSeq(c2s'[s], Len(c2s[s]) + 1, Len(c2s'[s]))
  ELSE <<>>

\* the entries of a mirror that reader has not sent and has not read
Unread(mirror, reader) ==
  {i \in 1..Len(mirror) :
     mirror[i].sender # reader /\ ~Includes(mirror[i].readBy, reader)}

\* C24: every read receipt a client emits, by whichever trigger, is for a
\* record that is in its mirror, is not sent by the reader and does not have
\* the reader in its readBy.
C24_ReceiptsGuarded ==
  [][\A s \in SockIds : \A n \in 1..Len(Emitted(s)) :
       LET e == Emitted(s)[n]
       IN e.type = "read receipt" =>
            \E i \in Unread(client'[e.from].messages, e.reader) :
              client'[e.from].messages[i].id = e.messageId]_vars

\* C29: when the tab of a connected client with a name becomes visible, the
\* client emits one receipt with its name for each entry of its mirror that it
\* has not sent and not read, and nothing else, and its state stays as it is.
C29_VisibleScan ==
  [][\A k \in Clients :
       VisibilityChange(k) =>
         LET c == client[k]
             emits == Emitted(c.sid)
             unread == Unread(c.messages, c.username)
         IN /\ Len(emits) = Cardinality(unread)
            /\ \A n \in 1..Len(emits) :
                 /\ emits[n].type = "read receipt"
                 /\ emits[n].reader = c.username
                 /\ \E i \in unread : c.messages[i].id = emits[n].messageId
            /\ \A i \in unread : \E n \in 1..Len(emits) : emits[n].messageId = c.messages[i].id
            /\ client' = client]_vars

\* the scan of a client that holds a record it has read and a record it has
\* not read has put a receipt on its socket
C29_Witness ==
  \E k \in Clients :
    /\ client[k].connected
    /\ Len(client[k].messages) = 2
    /\ Cardinality(Unread(client[k].messages, client[k].username)) = 1
    /\ c2s[client[k].sid] # <<>>
    /\ Last(c2s[client[k].sid]).type = "read receipt"
    /\ Last(c2s[client[k].sid]).via = "visible"

\* C30: a chat message push whose id is already in the mirror, or whose sender
\* is the client's name, makes the client emit nothing.
C30_ArrivalOnlyOnNewForeign ==
  [][\A k \in Clients :
       (ClientReceive(k)
          /\ Head(client[k].inbox).event = "chat message"
          /\ \/ Head(client[k].inbox).payload.id \in Ids(client[k].messages)
             \/ Head(client[k].inbox).payload.sender = client[k].username) =>
         c2s' = c2s]_vars

\* nothing is in flight: every event is handled and every push is delivered
Quiet == /\ \A s \in SockIds : c2s[s] = <<>>
         /\ \A k \in Clients : client[k].inbox = <<>>

\* every entry of every mirror is the record the log holds under its id
MirrorsAgree ==
  \A k \in Clients : \A i \in 1..Len(client[k].messages) :
    \E j \in 1..Len(messages) : messages[j] = client[k].messages[i]

\* C23: when the server handles the receipt of B for a post of A that only A
\* has read, it sets the readBy to A, B and emits message updated with that
\* record; and when nothing is in flight any more, every entry of each mirror
\* is identical to the server's record.
C23_ReceiptConverges ==
  [][/\ \A s \in SockIds, t \in Clock :
          (Serve(s, t) /\ Head(c2s[s]).type = "read receipt") =>
            \A i \in 1..Len(messages) :
              (/\ messages[i].id = Head(c2s[s]).messageId
               /\ messages[i].sender # System
               /\ messages[i].readBy = <<messages[i].sender>>
               /\ Head(c2s[s]).reader # messages[i].sender) =>
                /\ messages'[i].readBy = <<messages[i].sender, Head(c2s[s]).reader>>
                /\ out' = <<IoEmit("message updated", messages'[i], live)>>
     /\ Quiet' => MirrorsAgree']_vars

\* Ana has posted, Bob has read it, nothing is in flight, and both mirrors
\* hold the post with the readers Ana and Bob
C23_Witness ==
  /\ Quiet
  /\ \E j \in 1..Len(messages) :
       /\ messages[j].sender = "Ana"
       /\ messages[j].readBy = <<"Ana", "Bob">>
       /\ \A k \in Clients : messages[j] \in Range(client[k].messages)


\* C22: when a client has handled a chat message or message updated push for
\* an id that its mirror holds, the mirror's entry for that id is the pushed
\* record: the version the server pushed to it last.
C22_MirrorHoldsLastPush ==
  [][\A k \in Clients :
       (ClientReceive(k)
          /\ Head(client[k].inbox).event \in {"chat message", "message updated"}) =>
         \A i \in 1..Len(client'[k].messages) :
           client'[k].messages[i].id = Head(client[k].inbox).payload.id =>
             client'[k].messages[i] = Head(client[k].inbox).payload]_vars

\* C25: in the rename flow, confirming the name that was stored when the flow
\* began sends nothing to the server, neither a rename nor a join
C25_SameNameConfirmSilent ==
  [][\A k \in Clients, typed \in TypedNames :
       (ConfirmUsername(k, typed) /\ trim(typed) = client[k].oldUsername) =>
         c2s' = c2s]_vars

\* C26: a transport failure, connect error or abnormal disconnect, leaves the
\* mirror and the name of the client as they were; a client that had joined
\* keeps a socket that connects again when the transport is back, and on that
\* connect it emits join with its current name
C26_KeepsStateAndResumes ==
  [][\A k \in Clients :
       /\ (TransportLoss(k) \/ ConnectError(k)) =>
            /\ client'[k].messages = client[k].messages
            /\ client'[k].username = client[k].username
       /\ (ClientConnect(k) /\ client[k].joined) =>
            c2s'[client'[k].sid] = <<JoinEvent(k, client[k].username, TRUE)>>
       /\ (client'[k].joined /\ ~client'[k].connected) => client'[k].socket]_vars

\* what a step of the client appended to the queue of socket s
Appended(s) == SubSeq(c2s'[s], Len(c2s[s]) + 1, Len(c2s'[s]))

\* C31: the rename flow stores the name the client holds when it starts and
\* keeps it until the confirm; confirming a non-blank, different name while
\* connected emits exactly one rename, from the stored name to the confirmed
\* name, and leaves the changing mode
C31_RenameEmittedOnce ==
  [][\A k \in Clients :
       /\ StartChangeUsername(k) =>
            /\ client'[k].changingUsername
            /\ client'[k].oldUsername = client[k].username
       /\ (client[k].changingUsername /\ client'[k].changingUsername) =>
            client'[k].oldUsername = client[k].oldUsername
       /\ \A typed \in TypedNames :
            (/\ ConfirmUsername(k, typed)
             /\ trim(typed) # client[k].oldUsername
             /\ client[k].connected) =>
              LET added == Appended(client[k].sid)
                  renames == {i \in 1..Len(added) : added[i].type = "change username"}
              IN /\ Cardinality(renames) = 1
                 /\ \A i \in renames :
                      /\ added[i].oldUsername = client[k].oldUsername
                      /\ added[i].newUsername = trim(typed)
                 /\ ~client'[k].changingUsername
                 /\ client'[k].username = trim(typed)]_vars

\* a client has just confirmed another name: its rename waits for the server
\* and the client is back in the chat view under the new name
C31_Witness ==
  \E k \in Clients :
    /\ client[k].connected
    /\ client[k].hasUsername
    /\ ~client[k].changingUsername
    /\ \E i \in 1..Len(c2s[client[k].sid]) :
         /\ c2s[client[k].sid][i].type = "change username"
         /\ c2s[client[k].sid][i].oldUsername # c2s[client[k].sid][i].newUsername
         /\ c2s[client[k].sid][i].newUsername = client[k].username

\* C37: confirming another name in the rename flow while connected makes the
\* client send one event, the rename, and no join
C37_RenameSendsOnlyRename ==
  [][\A k \in Clients, typed \in TypedNames :
       (/\ ConfirmUsername(k, typed)
        /\ trim(typed) # client[k].oldUsername
        /\ client[k].connected) =>
         /\ Len(Appended(client[k].sid)) = 1
         /\ Appended(client[k].sid)[1].type = "change username"]_vars

\* C38: a message updated push for an id that is not in the mirror leaves the
\* mirror as it is
C38_UpdateOfUnknownId ==
  [][\A k \in Clients :
       (/\ ClientReceive(k)
        /\ Head(client[k].inbox).event = "message updated"
        /\ Head(client[k].inbox).payload.id \notin Ids(client[k].messages)) =>
         client'[k].messages = client[k].messages]_vars

\* the server has just broadcast an update to a connected client, the client
\* has handled everything pushed to it, and its mirror lacks the record
C38_Witness ==
  \E k \in Clients :
    /\ Len(out) = 1
    /\ out[1].event = "message updated"
    /\ client[k].connected
    /\ client[k].sid \in out[1].to
    /\ client[k].inbox = <<>>
    /\ out[1].payload.id \notin Ids(client[k].messages)

\* the records of the server log with the id of a mirror entry
Originals(entry) == {i \in 1..Len(messages) : messages[i].id = entry.id}

\* C34: every entry of a mirror has the id of a record of the server log, with
\* the text and the sender of that record and with readers that the record
\* has too
C34_MirrorRefinesLog ==
  \A k \in Clients :
    \A i \in 1..Len(client[k].messages) :
      LET entry == client[k].messages[i]
      IN /\ Originals(entry) # {}
         /\ \A j \in Originals(entry) :
              /\ messages[j].text = entry.text
              /\ messages[j].sender = entry.sender
              /\ ReadBySet(entry) \subseteq ReadBySet(messages[j])

\* a mirror holds an entry that an update has replaced, and another entry
\* that lacks a reader the server has recorded since
C34_Witness ==
  \E k \in Clients :
    \E i, j \in 1..Len(client[k].messages) :
      /\ Len(client[k].messages[i].readBy) >= 2
      /\ \E n \in Originals(client[k].messages[j]) :
           ReadBySet(messages[n]) \ ReadBySet(client[k].messages[j]) # {}

\* the position in the server log of the record with this id
LogPos(id) == CHOOSE i \in 1..Len(messages) : messages[i].id = id

\* the entries of list appear in the order of the server log, for every two
\* entries whose order matters
InLogOrder(list, matters(_, _)) ==
  \A i, j \in 1..Len(list) :
    (i < j /\ matters(list[i], list[j])) => LogPos(list[i].id) < LogPos(list[j].id)

\* C35, as stated: two messages of a mirror are stored there in the order they
\* have in the server log
C35_MirrorInLogOrder ==
  \A k \in Clients : InLogOrder(client[k].messages, LAMBDA a, b : TRUE)

\* C35, amended: the list the page shows, the mirror sorted by timestamp, has
\* two messages with different timestamps in the order of the server log
C35_DisplayInLogOrder ==
  \A k \in Clients :
    InLogOrder(sortedMessages(client[k].messages),
               LAMBDA a, b : a.timestamp # b.timestamp)

\* a mirror that stores two messages with different timestamps against the
\* order of the log
C35_Witness ==
  \E k \in Clients :
    \E i, j \in 1..Len(client[k].messages) :
      /\ i < j
      /\ client[k].messages[i].timestamp # client[k].messages[j].timestamp
      /\ LogPos(client[k].messages[i].id) > LogPos(client[k].messages[j].id)

\* C33: a receipt that a client emits on a push names as reader the name under
\* which the client has joined; a client that shows the username form, before
\* its join or in the rename flow, emits no receipt on a push
C33_ReceiptNamesJoinedReader ==
  [][\A k \in Clients :
       ClientReceive(k) =>
         \A i \in 1..Len(Appended(client[k].sid)) :
           Appended(client[k].sid)[i].type = "read receipt" =>
             /\ client[k].hasUsername
             /\ Appended(client[k].sid)[i].reader = client[k].username]_vars

\* C36: when nothing is in flight, the registry binds the socket of every
\* connected client that has its name set to the name the client holds
C36_RegistryHoldsClientName ==
  Quiet =>
    \A k \in Clients :
      (client[k].connected /\ client[k].hasUsername) =>
        /\ MapHas(users, client[k].sid)
        /\ MapGet(users, client[k].sid).val = client[k].username

\* no push waits for a client, and no event waits for the server, except
\* behind an event whose record the bound on the log excludes
Drained ==
  /\ \A k \in Clients : client[k].inbox = <<>>
  /\ \A s \in SockIds :
       \/ c2s[s] = <<>>
       \/ nextId > MaxMsgs /\ Head(c2s[s]).type # "read receipt"

\* the message updated emissions of the handler that has just run
Updates(o) == {i \in 1..Len(o) : o[i].event = "message updated"}

\* the readers recorded in the log, over all its records
ReadersRecorded(msgs) ==
  Cardinality(UNION {{<<i, n>> : n \in 1..Len(msgs[i].readBy)} : i \in 1..Len(msgs)})

\* C32: the server broadcasts a message updated only in a step that records a
\* new reader, one broadcast for one reader, and under fair delivery the
\* system comes to rest with nothing in flight once the clients stop
\* connecting, joining and posting
C32_ReceiptLoopTerminates ==
  /\ [][\A s \in SockIds, t \in Clock :
          Serve(s, t) =>
            /\ Cardinality(Updates(out'))
                 = ReadersRecorded(SubSeq(messages', 1, Len(messages)))
                     - ReadersRecorded(messages)
            /\ \A i \in Updates(out') :
                 \E j \in 1..Len(messages) :
                   /\ messages[j].id = out'[i].payload.id
                   /\ Len(messages'[j].readBy) = Len(messages[j].readBy) + 1]_vars
  /\ <>[]Drained

\* a receipt has been recorded and broadcast, and everything is handled
C32_Witness ==
  /\ Quiet
  /\ last = "read receipt"
  /\ Updates(out) # {}
  /\ \E j \in 1..Len(messages) : Len(messages[j].readBy) >= 2

\* the server has the socket of the client in its registry
JoinedAtServer(k) == client[k].connected /\ MapHas(users, client[k].sid)

\* the client has logged out and has submitted a name since
SubmittedAfterLogout(k) ==
  ~client[k].socket /\ ~client[k].hasUsername /\ client[k].username # ""

\* C39: a logout disconnects the client and resets its mirror, name, online
\* list and rename flags; a client that submits a name after a logout
\* eventually is joined at the server
C39_LogoutThenJoinAgain ==
  /\ [][\A k \in Clients :
          Logout(k) =>
            /\ ~client'[k].connected
            /\ client'[k].messages = <<>>
            /\ client'[k].username = ""
            /\ client'[k].onlineUsers = <<>>
            /\ ~client'[k].hasUsername
            /\ ~client'[k].changingUsername
            /\ client'[k].oldUsername = ""]_vars
  /\ \A k \in Clients : SubmittedAfterLogout(k) ~> JoinedAtServer(k)
====
